---- MODULE Spec2Model ----
(***************************************************************************)
(* A model of tor.py (mojenX Tor Manager): the torrc read/modify/write     *)
(* routine, the control-port NEWNYM handshake, the background rotation     *)
(* thread and the exit-node latency probe.                                 *)
(*                                                                         *)
(* Python text is a sequence of one-character strings, so that strip,      *)
(* lower, split, splitlines, int and str are computed as Python computes   *)
(* them.  Optional[T] is <<>> (None) or <<v>>.                             *)
(***************************************************************************)
EXTENDS Integers, Sequences, FiniteSets, TLC

VARIABLES
    torrc,        \* the file /etc/tor/torrc: [exists, text]
    root,         \* os.geteuid() == 0
    pc,           \* position of the menu thread inside a config operation
    call,         \* the running (or last) config operation and its arguments
    prior,        \* torrc as it was when that operation was called
    pending,      \* the text write_torrc is about to write
    newBackups,   \* contents of the backup files made by that operation
    svcLog,       \* service actions (restart, reload) issued by that operation
    printed,      \* whether that operation printed its error message
    nymEnv,       \* what the control port's environment does during send_newnym
    nymRes,       \* <<>> or <<result of the last send_newnym>>
    stopFlag,     \* self._auto_rotate_stop
    interval,     \* self._auto_rotate_interval_min
    mpc,          \* position of the menu thread in start/stop_auto_rotation
    thr,          \* position of the rotation thread (self._auto_rotate_thread)
    ticks,        \* the for-loop counter of the rotation thread's sleep
    seen,         \* the last value of the stop flag the rotation thread read
    lastOk,       \* <<>> or <<result of the rotation thread's last attempt>>
    wanted,       \* start_auto_rotation returned and stop was not called since
    fpc,          \* position inside fastest_country
    pool,         \* fastest_country's filtered candidate list
    idx,          \* index of the next candidate to try
    best,         \* <<>> or <<best candidate so far>>
    best_latency, \* <<>> or <<its latency>>
    probes,       \* history: the probe result of each candidate tried
    wfail         \* history: some write of this fastest_country run failed

cfgVars  == <<torrc, root, pc, call, prior, pending, newBackups, svcLog, printed>>
nymVars  == <<nymEnv, nymRes>>
rotVars  == <<stopFlag, interval, mpc, thr, ticks, seen, lastOk, wanted>>
fastVars == <<fpc, pool, idx, best, best_latency, probes, wfail>>
vars     == <<cfgVars, nymVars, rotVars, fastVars>>

None == <<>>
Some(v) == <<v>>

----------------------------------------------------------------------------
(* Python str operations *)

Whitespace == {" ", "\t", "\n", "\r"}
UpperCase == <<"A","B","C","D","E","F","G","H","I","J","K","L","M",
               "N","O","P","Q","R","S","T","U","V","W","X","Y","Z">>
LowerCase == <<"a","b","c","d","e","f","g","h","i","j","k","l","m",
               "n","o","p","q","r","s","t","u","v","w","x","y","z">>
Digits == <<"0","1","2","3","4","5","6","7","8","9">>

\* the lower-case letter of each upper-case letter
LowerOf == [c \in {UpperCase[i] : i \in 1..26} |->
               LowerCase[CHOOSE i \in 1..26 : UpperCase[i] = c]]

LowerChar(c) == IF c \in DOMAIN LowerOf THEN LowerOf[c] ELSE c

lower(s) == [i \in 1..Len(s) |-> LowerChar(s[i])]

\* s.lstrip(): s from its first character that is not whitespace
lstrip(s) ==
    LET n == Len(s)
        solid == {i \in 1..n : s[i] \notin Whitespace}
    IN  IF solid = {} THEN <<>>
        ELSE SubSeq(s, CHOOSE i \in solid : \A j \in solid : i <= j, n)

\* s.rstrip(): s up to its last character that is not whitespace
rstrip(s) ==
    LET solid == {i \in 1..Len(s) : s[i] \notin Whitespace}
    IN  IF solid = {} THEN <<>>
        ELSE SubSeq(s, 1, CHOOSE i \in solid : \A j \in solid : j <= i)

strip(s) == rstrip(lstrip(s))

\* s.split(): the whitespace-separated words of s
split(s) ==
    LET n == Len(s)
        starts == {i \in 1..n : s[i] \notin Whitespace
                                 /\ (i = 1 \/ s[i - 1] \in Whitespace)}
        ends == {i \in 1..n : s[i] \notin Whitespace
                               /\ (i = n \/ s[i + 1] \in Whitespace)}
        nth(S, j) == CHOOSE b \in S : Cardinality({x \in S : x <= b}) = j
    IN  [j \in 1..Cardinality(starts) |-> SubSeq(s, nth(starts, j), nth(ends, j))]

startswith(s, p) == Len(s) >= Len(p) /\ SubSeq(s, 1, Len(p)) = p

\* p in s
contains(s, p) == \E i \in 1..(Len(s) - Len(p) + 1) : SubSeq(s, i, i + Len(p) - 1) = p

\* t.split(" ", 1)[1] if " " in t else ""
AfterFirstSpace(t) ==
    IF \E i \in 1..Len(t) : t[i] = " "
    THEN LET i == CHOOSE j \in 1..Len(t) :
                      t[j] = " " /\ \A k \in 1..(j - 1) : t[k] # " "
         IN  SubSeq(t, i + 1, Len(t))
    ELSE <<>>

\* text.splitlines(): the lines of text, ended by "\n", "\r" or "\r\n", without
\* their line ends
splitlines(text) ==
    LET n == Len(text)
        ends == {i \in 1..n : \/ text[i] = "\n"
                              \/ text[i] = "\r" /\ ~(i < n /\ text[i + 1] = "\n")}
        m == Cardinality(ends)
        endAt(j) == CHOOSE e \in ends : Cardinality({x \in ends : x <= e}) = j
        breakAt(e) == IF text[e] = "\n" /\ e > 1 /\ text[e - 1] = "\r" THEN e - 1 ELSE e
        last == IF m = 0 THEN 0 ELSE endAt(m)
    IN  [j \in 1..m |-> SubSeq(text, IF j = 1 THEN 1 ELSE endAt(j - 1) + 1,
                                    breakAt(endAt(j)) - 1)]
        \o (IF last < n THEN << SubSeq(text, last + 1, n) >> ELSE <<>>)

RECURSIVE joinNl(_)
joinNl(ls) ==
    IF ls = <<>> THEN <<>>
    ELSE IF Len(ls) = 1 THEN ls[1]
    ELSE ls[1] \o <<"\n">> \o joinNl(Tail(ls))

\* "\n".join(out) + "\n"
FileText(out) == joinNl(out) \o <<"\n">>

IsDigit(c) == \E i \in 1..10 : Digits[i] = c
DigitVal(c) == (CHOOSE i \in 1..10 : Digits[i] = c) - 1

RECURSIVE digitsVal(_, _)
digitsVal(s, acc) ==
    IF s = <<>> THEN acc
    ELSE IF Head(s) = "_" THEN digitsVal(Tail(s), acc)
    ELSE digitsVal(Tail(s), 10 * acc + DigitVal(Head(s)))

\* int(tok): <<>> where Python raises ValueError. Decimal digits with an
\* optional sign and single underscores between digits.
int(tok) ==
    LET signed == tok # <<>> /\ Head(tok) \in {"+", "-"}
        body == IF signed THEN Tail(tok) ELSE tok
        wellFormed ==
            /\ body # <<>>
            /\ \A i \in 1..Len(body) : IsDigit(body[i]) \/ body[i] = "_"
            /\ IsDigit(body[1]) /\ IsDigit(body[Len(body)])
            /\ \A i \in 1..(Len(body) - 1) : ~(body[i] = "_" /\ body[i + 1] = "_")
    IN  IF ~wellFormed THEN None
        ELSE IF signed /\ Head(tok) = "-" THEN Some(0 - digitsVal(body, 0))
        ELSE Some(digitsVal(body, 0))

RECURSIVE strNat(_)
strNat(n) ==
    IF n < 10 THEN <<Digits[n + 1]>>
    ELSE strNat(n \div 10) \o <<Digits[(n % 10) + 1]>>

\* str(n) of an int
str(n) == IF n < 0 THEN <<"-">> \o strNat(0 - n) ELSE strNat(n)

----------------------------------------------------------------------------
(* Constants of the program *)

DEFAULT_SOCKS == 9050
DEFAULT_CONTROL == 9051

C_de == <<"d","e">>
C_us == <<"u","s">>
C_nl == <<"n","l">>
C_gb == <<"g","b">>
C_fr == <<"f","r">>
C_ca == <<"c","a">>
C_se == <<"s","e">>
C_ch == <<"c","h">>
C_fi == <<"f","i">>
C_pl == <<"p","l">>
C_es == <<"e","s">>

VALID_COUNTRIES ==
    { <<"t","r">>, C_de, C_us, C_fr, C_gb, <<"u","k">>, <<"a","t">>, <<"b","e">>,
      <<"r","o">>, C_ca, <<"s","g">>, <<"j","p">>, <<"i","e">>, C_fi, C_es, C_pl,
      C_nl, C_se, C_ch, <<"i","t">> }

K_SocksPort == <<"S","o","c","k","s","P","o","r","t">>
K_ControlPort == <<"C","o","n","t","r","o","l","P","o","r","t">>
K_CookieAuthentication ==
    <<"C","o","o","k","i","e","A","u","t","h","e","n","t","i","c","a","t","i","o","n">>
K_CookieAuthFile == <<"C","o","o","k","i","e","A","u","t","h","F","i","l","e">>
K_ExitNodes == <<"E","x","i","t","N","o","d","e","s">>
K_StrictNodes == <<"S","t","r","i","c","t","N","o","d","e","s">>
K_UseBridges == <<"U","s","e","B","r","i","d","g","e","s">>
K_Bridge == <<"B","r","i","d","g","e">>
K_AvoidDiskWrites == <<"A","v","o","i","d","D","i","s","k","W","r","i","t","e","s">>
K_ClientUseIPv6 == <<"C","l","i","e","n","t","U","s","e","I","P","v","6">>
K_ClientPreferIPv6OR ==
    <<"C","l","i","e","n","t","P","r","e","f","e","r","I","P","v","6","O","R">>

\* the keys whose existing lines write_torrc's first pass skips
FilteredKeys ==
    { <<"s","o","c","k","s","p","o","r","t">>,
      <<"e","x","i","t","n","o","d","e","s">>,
      <<"c","o","n","t","r","o","l","p","o","r","t">>,
      <<"c","o","o","k","i","e","a","u","t","h","e","n","t","i","c","a","t","i","o","n">>,
      <<"c","o","o","k","i","e","a","u","t","h","f","i","l","e">>,
      <<"s","t","r","i","c","t","n","o","d","e","s">>,
      <<"u","s","e","b","r","i","d","g","e","s">>,
      <<"c","l","i","e","n","t","p","r","e","f","e","r","i","p","v","6","o","r">>,
      <<"c","l","i","e","n","t","u","s","e","i","p","v","6">>,
      <<"a","v","o","i","d","d","i","s","k","w","r","i","t","e","s">>,
      <<"b","r","i","d","g","e">>,
      <<"c","l","i","e","n","t","t","r","a","n","s","p","o","r","t","p","l","u","g","i","n">> }

\* the values read_torrc takes for "UseBridges on"
TruthyWords == { <<"1">>, <<"t","r","u","e">>, <<"y","e","s">>, <<"o","n">> }

----------------------------------------------------------------------------
(* torrc I/O *)

NoFile == [exists |-> FALSE, text |-> <<>>]
File(text) == [exists |-> TRUE, text |-> text]

\* one iteration of read_torrc's loop over the lines
ReadLine(st, raw) ==
    LET t == strip(raw)
        tl == lower(t)
        parts == split(t)
    IN  IF startswith(tl, lower(K_SocksPort))
        THEN IF Len(parts) >= 2 /\ int(parts[2]) # None
             THEN [st EXCEPT !.socks = int(parts[2])[1]] ELSE st
        ELSE IF startswith(tl, lower(K_ControlPort))
        THEN IF Len(parts) >= 2 /\ int(parts[2]) # None
             THEN [st EXCEPT !.control = int(parts[2])[1]] ELSE st
        ELSE IF startswith(t, K_ExitNodes)
        THEN [st EXCEPT !.exitnodes = AfterFirstSpace(t)]
        ELSE IF startswith(tl, lower(K_UseBridges))
        THEN IF Len(parts) >= 2
             THEN [st EXCEPT !.use_bridges = (parts[2] \in TruthyWords)] ELSE st
        ELSE st

RECURSIVE ReadLines(_, _)
ReadLines(st, lines) ==
    IF lines = <<>> THEN st ELSE ReadLines(ReadLine(st, Head(lines)), Tail(lines))

\* read_torrc; readOk is whether TORRC.read_text() returned (it raises on an
\* I/O or decoding error, and the lines are then taken to be none)
read_torrc(f, readOk) ==
    LET lines == IF f.exists /\ readOk THEN splitlines(f.text) ELSE <<>>
    IN  ReadLines([socks |-> DEFAULT_SOCKS, control |-> DEFAULT_CONTROL,
                   exitnodes |-> <<>>, use_bridges |-> FALSE], lines)
        @@ [lines |-> lines]

\* key = tl.split()[0] if tl else ""
KeyOf(raw) ==
    LET tl == lower(strip(raw))
    IN  IF tl = <<>> THEN <<>> ELSE split(tl)[1]

\* f"{k} {v}"
Line(k, v) == k \o <<" ">> \o v

Flag(b) == IF b THEN <<"1">> ELSE <<"0">>

\* the arguments of write_torrc, all defaulted
NoArgs ==
    [port |-> None, exitnodes |-> None, control_port |-> None, cookie_auth |-> None,
     cookie_file |-> None, strict_nodes |-> None, use_bridges |-> None,
     bridges |-> None, optimizations |-> FALSE]

\* write_torrc's first pass: the existing lines it keeps
KeptLines(lines) == SelectSeq(lines, LAMBDA raw : KeyOf(raw) \notin FilteredKeys)

\* write_torrc's second part: the lines it appends
EmittedLines(r, a) ==
       << Line(K_SocksPort,
               IF a.port # None /\ a.port[1] # 0 THEN str(a.port[1]) ELSE str(r.socks)) >>
    \o << Line(K_ControlPort,
               IF a.control_port # None /\ a.control_port[1] # 0
               THEN str(a.control_port[1]) ELSE str(r.control)) >>
    \o (IF a.cookie_auth # None
        THEN << Line(K_CookieAuthentication, Flag(a.cookie_auth[1])) >> ELSE <<>>)
    \o (IF a.cookie_file # None /\ a.cookie_file[1] # <<>>
        THEN << Line(K_CookieAuthFile, a.cookie_file[1]) >> ELSE <<>>)
    \o (IF a.exitnodes # None
        THEN << Line(K_ExitNodes, a.exitnodes[1]) >> ELSE <<>>)
    \o (IF a.strict_nodes # None
        THEN << Line(K_StrictNodes, Flag(a.strict_nodes[1])) >> ELSE <<>>)
    \o << Line(K_UseBridges,
               IF a.use_bridges # None THEN Flag(a.use_bridges[1])
               ELSE Flag(r.use_bridges)) >>
    \o (IF a.bridges # None
        THEN [i \in 1..Len(a.bridges[1]) |-> Line(K_Bridge, a.bridges[1][i])]
        ELSE <<>>)
    \o (IF a.optimizations
        THEN << Line(K_AvoidDiskWrites, <<"1">>), Line(K_ClientUseIPv6, <<"1">>),
                Line(K_ClientPreferIPv6OR, <<"1">>) >>
        ELSE <<>>)

\* the list `out` write_torrc builds from the file and its arguments
WriteOut(f, readOk, a) ==
    LET r == read_torrc(f, readOk)
    IN  KeptLines(r.lines) \o EmittedLines(r, a)

----------------------------------------------------------------------------
(* Bounds and inputs of the configuration operations *)

MaxLines == 2
MaxCodes == 3

L_Foo == <<"F","o","o"," ","b","a","r">>
L_Note == <<" "," ","#"," ","k","e","e","p"," ">>
L_Socks == <<"S","o","c","k","s","P","o","r","t"," ","9","1","5","0">>
L_Exit == <<"E","x","i","t","N","o","d","e","s"," ","{","u","s","}">>
L_Strict == <<"S","t","r","i","c","t","N","o","d","e","s"," ","1">>
L_Plugin ==
    <<"C","l","i","e","n","t","T","r","a","n","s","p","o","r","t","P","l","u","g","i","n"," ","o">>

SampleLines == {L_Foo, L_Note, L_Socks, L_Exit, L_Strict, L_Plugin}

SeqsUpTo(S, n) == UNION { [1..k -> S] : k \in 0..n }

\* the files torrc may be when the program starts
PriorFiles == {NoFile} \cup { File(FileText(ls)) : ls \in SeqsUpTo(SampleLines, MaxLines) }

SampleCodes == { <<"D","E">>, C_us, <<"x","x">> }
CodeLists == SeqsUpTo(SampleCodes, MaxCodes)

SamplePorts == {0, 8080}
B_obfs == <<"o","b","f","s","4"," ","A">>
SampleBridges == { <<>>, <<B_obfs>> }
P_cookie == <<"/","r","u","n","/","t","o","r","/","c","o","n","t","r","o","l",".",
              "a","u","t","h","c","o","o","k","i","e">>
P_cookie3 == <<"/","v","a","r","/","l","i","b","/","t","o","r","/","c","o","n","t","r","o","l",
               "_","a","u","t","h","_","c","o","o","k","i","e">>

\* argument lists of a direct write_torrc call
ArgSamples ==
    { NoArgs,
      [NoArgs EXCEPT !.control_port = Some(9151), !.cookie_auth = Some(FALSE),
                     !.cookie_file = Some(P_cookie)],
      [NoArgs EXCEPT !.port = Some(8080), !.exitnodes = Some(<<>>),
                     !.strict_nodes = Some(FALSE), !.use_bridges = Some(TRUE),
                     !.optimizations = TRUE] }

----------------------------------------------------------------------------
(* The configuration operations.  A behaviour follows one operation of the  *)
(* menu thread, from any prior file, step by step to its return ("done")    *)
(* or to the point where the process is killed ("killed").                  *)

NoCall == [op |-> "none", a |-> NoArgs, codes |-> <<>>, readOk |-> TRUE, wrote |-> FALSE]

\* (a variant of GoodCodes that filters on the lower-cased code and keeps the
\* code as it was given)
GoodCodes_KeepCase(codes) == SelectSeq(codes, LAMBDA c : lower(c) \in VALID_COUNTRIES)

\* good = [c.lower() for c in codes if c.lower() in VALID_COUNTRIES]
GoodCodes(codes) ==
    LET kept == SelectSeq(codes, LAMBDA c : lower(c) \in VALID_COUNTRIES)
    IN  [i \in 1..Len(kept) |-> lower(kept[i])]

RECURSIVE Concat(_)
Concat(ss) == IF ss = <<>> THEN <<>> ELSE Head(ss) \o Concat(Tail(ss))

\* s = "".join(f"{{{c}}}" for c in good)
Braced(good) == Concat([i \in 1..Len(good) |-> <<"{">> \o good[i] \o <<"}">>])

\* write_torrc up to the call of backup_torrc: read the file, build `out`
EnterWrite(op, a, codes) ==
    /\ pc = "idle"
    /\ \E readOk \in BOOLEAN :
           /\ pending' = FileText(WriteOut(torrc, readOk, a))
           /\ call' = [op |-> op, a |-> a, codes |-> codes, readOk |-> readOk,
                       wrote |-> FALSE]
    /\ prior' = torrc
    /\ newBackups' = {}
    /\ svcLog' = <<>>
    /\ printed' = FALSE
    /\ pc' = "backup"
    /\ UNCHANGED <<torrc, root>>

\* an operation that returns without touching the file
ReturnEarly(op, a, codes) ==
    /\ pc = "idle"
    /\ call' = [op |-> op, a |-> a, codes |-> codes, readOk |-> TRUE, wrote |-> FALSE]
    /\ prior' = torrc
    /\ newBackups' = {}
    /\ svcLog' = <<>>
    /\ printed' = TRUE
    /\ pending' = <<>>
    /\ pc' = "done"
    /\ UNCHANGED <<torrc, root>>

Write_torrc ==
    /\ \E a \in ArgSamples : EnterWrite("write_torrc", a, <<>>)
    /\ UNCHANGED <<nymVars, rotVars, fastVars>>

Set_exitnodes ==
    /\ pc = "idle"
    /\ \E codes \in CodeLists :
           IF GoodCodes(codes) = <<>>
           THEN ReturnEarly("set_exitnodes", NoArgs, codes)
           ELSE EnterWrite("set_exitnodes",
                           [NoArgs EXCEPT !.exitnodes = Some(Braced(GoodCodes(codes)))],
                           codes)
    /\ UNCHANGED <<nymVars, rotVars, fastVars>>

Set_socks_port ==
    /\ \E port \in SamplePorts :
           EnterWrite("set_socks_port", [NoArgs EXCEPT !.port = Some(port)], <<>>)
    /\ UNCHANGED <<nymVars, rotVars, fastVars>>

Enable_bridges ==
    /\ \E bridges \in SampleBridges :
           EnterWrite("enable_bridges",
                      [NoArgs EXCEPT !.use_bridges = Some(TRUE), !.bridges = Some(bridges)],
                      <<>>)
    /\ UNCHANGED <<nymVars, rotVars, fastVars>>

Disable_bridges ==
    /\ EnterWrite("disable_bridges", [NoArgs EXCEPT !.use_bridges = Some(FALSE)], <<>>)
    /\ UNCHANGED <<nymVars, rotVars, fastVars>>

\* ensure_control_port; found is what _find_cookie_file returns
Ensure_control_port ==
    /\ IF ~root
       THEN ReturnEarly("ensure_control_port", NoArgs, <<>>)
       ELSE \E found \in {None, Some(P_cookie3)} :
                EnterWrite("ensure_control_port",
                           [NoArgs EXCEPT
                               !.control_port = Some(DEFAULT_CONTROL),
                               !.cookie_auth = Some(TRUE),
                               !.cookie_file =
                                   Some(IF found # None THEN found[1] ELSE P_cookie),
                               !.strict_nodes = Some(TRUE),
                               !.optimizations = TRUE],
                           <<>>)
    /\ UNCHANGED <<nymVars, rotVars, fastVars>>

\* backup_torrc: the copy may raise, which is logged and nothing more
Backup_torrc ==
    /\ pc = "backup"
    /\ IF torrc.exists
       THEN \E copied \in BOOLEAN :
                newBackups' = IF copied THEN {torrc.text} ELSE {}
       ELSE newBackups' = newBackups
    /\ pc' = "open"
    /\ UNCHANGED <<torrc, root, call, prior, pending, svcLog, printed>>
    /\ UNCHANGED <<nymVars, rotVars, fastVars>>

\* TORRC.write_text, first half: open(..., "w") creates or truncates the file,
\* or raises, which is logged
WriteOpen ==
    /\ pc = "open"
    /\ \E opened \in BOOLEAN :
           IF opened
           THEN torrc' = File(<<>>) /\ pc' = "flush"
           ELSE torrc' = torrc /\ pc' = "after"
    /\ UNCHANGED <<root, call, prior, pending, newBackups, svcLog, printed>>
    /\ UNCHANGED <<nymVars, rotVars, fastVars>>

\* TORRC.write_text, second half: the text is written and the file closed, or
\* the write raises (the disk is full), which is logged
WriteFlush ==
    /\ pc = "flush"
    /\ \E written \in BOOLEAN :
           IF written
           THEN torrc' = File(pending) /\ call' = [call EXCEPT !.wrote = TRUE]
           ELSE torrc' = torrc /\ call' = call
    /\ pc' = "after"
    /\ UNCHANGED <<root, prior, pending, newBackups, svcLog, printed>>
    /\ UNCHANGED <<nymVars, rotVars, fastVars>>

\* what the caller of write_torrc does next: restart() or reload(), which
\* act only as root
ServiceAction(op) ==
    IF op \in {"set_exitnodes", "set_socks_port", "enable_bridges", "disable_bridges"}
    THEN <<"restart">>
    ELSE IF op = "ensure_control_port" THEN <<"reload">>
    ELSE <<>>

AfterWrite ==
    /\ pc = "after"
    /\ svcLog' = IF root THEN ServiceAction(call.op) ELSE <<>>
    /\ pc' = "done"
    /\ UNCHANGED <<torrc, root, call, prior, pending, newBackups, printed>>
    /\ UNCHANGED <<nymVars, rotVars, fastVars>>

\* the process is killed inside an operation
Interrupt ==
    /\ pc \in {"backup", "open", "flush", "after"}
    /\ pc' = "killed"
    /\ UNCHANGED <<torrc, root, call, prior, pending, newBackups, svcLog, printed>>
    /\ UNCHANGED <<nymVars, rotVars, fastVars>>

\* no send_newnym call is modelled
NoEnv == [ cookies |-> {}, stillThere |-> FALSE, cookie |-> None, readOk |-> TRUE,
           listening |-> None, sendAuthOk |-> FALSE, authResp |-> None,
           sendSigOk |-> FALSE, sigResp |-> None, closeOk |-> FALSE ]

NymIdle == nymEnv = NoEnv /\ nymRes = None
RotIdle ==
    /\ stopFlag = FALSE /\ interval = None /\ mpc = "idle" /\ thr = "none"
    /\ ticks = 0 /\ seen = FALSE /\ lastOk = None /\ wanted = FALSE
FastIdle ==
    /\ fpc = "idle" /\ pool = <<>> /\ idx = 1 /\ best = None /\ best_latency = None
    /\ probes = <<>> /\ wfail = FALSE
CfgIdle ==
    /\ pc = "idle" /\ call = NoCall /\ prior = NoFile /\ pending = <<>>
    /\ newBackups = {} /\ svcLog = <<>> /\ printed = FALSE

InitCfg ==
    /\ torrc \in PriorFiles
    /\ root \in BOOLEAN
    /\ CfgIdle /\ NymIdle /\ RotIdle /\ FastIdle

NextCfg ==
    \/ Write_torrc
    \/ Set_exitnodes
    \/ Set_socks_port
    \/ Enable_bridges
    \/ Disable_bridges
    \/ Ensure_control_port
    \/ Backup_torrc
    \/ WriteOpen
    \/ WriteFlush
    \/ AfterWrite
    \/ Interrupt

SpecCfg == InitCfg /\ [][NextCfg]_vars

\* set_exitnodes alone, from files of unrelated and of ExitNodes lines
ExitPriors ==
    {NoFile} \cup { File(FileText(ls)) : ls \in SeqsUpTo({L_Foo, L_Exit}, MaxLines) }

InitExit ==
    /\ torrc \in ExitPriors
    /\ root \in BOOLEAN
    /\ CfgIdle /\ NymIdle /\ RotIdle /\ FastIdle

NextExit ==
    \/ Set_exitnodes
    \/ Backup_torrc
    \/ WriteOpen
    \/ WriteFlush
    \/ AfterWrite

SpecExit == InitExit /\ [][NextExit]_vars

----------------------------------------------------------------------------
(* ControlPort / NEWNYM.  send_newnym talks to its environment (the cookie  *)
(* files, the control port); an environment is a record saying what each    *)
(* step meets, and the operators compute what send_newnym then does.        *)

P_cookie2 == <<"/","r","u","n","/","t","o","r","/","c","o","n","t","r","o","l","_",
               "a","u","t","h","_","c","o","o","k","i","e">>
P_cookie4 == <<"/","v","a","r","/","l","i","b","/","t","o","r","/","c","o","n","t","r","o","l",
               ".","a","u","t","h","c","o","o","k","i","e">>

\* _find_cookie_file's candidates, in its order
CookieCandidates == <<P_cookie, P_cookie2, P_cookie3, P_cookie4>>

M_250 == <<"2","5","0"," ","O","K">>
T_Authenticate == <<"A","U","T","H","E","N","T","I","C","A","T","E"," ">>
T_Newnym == <<"S","I","G","N","A","L"," ","N","E","W","N","Y","M","\r","\n">>

HexDigits == <<"0","1","2","3","4","5","6","7","8","9","a","b","c","d","e","f">>

\* binascii.hexlify(cookie).decode("ascii")
hexlify(bytes) ==
    Concat([i \in 1..Len(bytes) |->
               <<HexDigits[(bytes[i] \div 16) + 1], HexDigits[(bytes[i] % 16) + 1]>>])

\* _find_cookie_file: the first candidate that exists, or None
FindCookieFile(existing) ==
    IF \E i \in 1..Len(CookieCandidates) : CookieCandidates[i] \in existing
    THEN Some(CookieCandidates[
             CHOOSE i \in 1..Len(CookieCandidates) :
                 /\ CookieCandidates[i] \in existing
                 /\ \A j \in 1..(i - 1) : CookieCandidates[j] \notin existing])
    ELSE None

\* (a variant of AuthControl that returns the socket whatever the reply is)
AuthControl_AnyReply(e, control_port) ==
    LET cookie_file == FindCookieFile(e.cookies)
    IN  IF cookie_file = None \/ ~e.stillThere
        THEN [sock |-> FALSE, sent |-> <<>>]
        ELSE IF e.cookie = None \/ e.listening # Some(control_port)
        THEN [sock |-> FALSE, sent |-> <<>>]
        ELSE IF ~e.sendAuthOk
        THEN [sock |-> FALSE, sent |-> <<>>]
        ELSE [sock |-> e.authResp # None,
              sent |-> << T_Authenticate \o hexlify(e.cookie[1]) \o <<"\r","\n">> >>]

\* _auth_control: whether it returns a socket, and what it sent on the wire.
\* An exception at any step (open, read, connect, sendall, recv) returns None.
AuthControl(e, control_port) ==
    LET cookie_file == FindCookieFile(e.cookies)
    IN  IF cookie_file = None \/ ~e.stillThere
        THEN [sock |-> FALSE, sent |-> <<>>]
        ELSE IF e.cookie = None \/ e.listening # Some(control_port)
        THEN [sock |-> FALSE, sent |-> <<>>]
        ELSE IF ~e.sendAuthOk
        THEN [sock |-> FALSE, sent |-> <<>>]
        ELSE [sock |-> e.authResp # None /\ contains(e.authResp[1], M_250),
              sent |-> << T_Authenticate \o hexlify(e.cookie[1]) \o <<"\r","\n">> >>]

\* send_newnym: its result and everything sent on the wire
SendNewnym(f, e) ==
    LET control == read_torrc(f, e.readOk).control
        s == AuthControl(e, control)
    IN  IF ~s.sock THEN [ret |-> FALSE, sent |-> s.sent]
        ELSE IF ~e.sendSigOk THEN [ret |-> FALSE, sent |-> s.sent]
        ELSE IF e.sigResp = None \/ ~e.closeOk
        THEN [ret |-> FALSE, sent |-> Append(s.sent, T_Newnym)]
        ELSE [ret |-> contains(e.sigResp[1], M_250), sent |-> Append(s.sent, T_Newnym)]

R_ok == <<"2","5","0"," ","O","K","\r","\n">>
R_bad == <<"5","1","5"," ","B","a","d","\r","\n">>
R_250 == <<"2","5","0","-","O","K">>

\* what recv may bring: an exception or timeout (None), or a reply
Replies == {None, Some(R_ok), Some(R_bad), Some(R_250), Some(<<>>)}

L_Control == <<"C","o","n","t","r","o","l","P","o","r","t"," ","9","1","5","1">>

\* the environments of a send_newnym call
NymEnvs ==
    [ cookies : { {}, {P_cookie}, {P_cookie3}, {P_cookie2, P_cookie4} },
      stillThere : BOOLEAN,
      cookie : { None, Some(<<10, 255>>) },
      readOk : BOOLEAN,
      listening : { None, Some(DEFAULT_CONTROL), Some(9151) },
      sendAuthOk : BOOLEAN,
      authResp : Replies,
      sendSigOk : BOOLEAN,
      sigResp : Replies,
      closeOk : BOOLEAN ]

Send_newnym ==
    /\ nymRes = None
    /\ nymRes' = Some(SendNewnym(torrc, nymEnv))
    /\ UNCHANGED <<nymEnv, cfgVars, rotVars, fastVars>>

InitNym ==
    /\ torrc \in {NoFile, File(FileText(<<L_Control>>))}
    /\ root = TRUE
    /\ CfgIdle /\ RotIdle /\ FastIdle
    /\ nymEnv \in NymEnvs
    /\ nymRes = None

NextNym == Send_newnym

SpecNym == InitNym /\ [][NextNym]_vars

----------------------------------------------------------------------------
(* Auto rotation: the menu thread's start_auto_rotation and                 *)
(* stop_auto_rotation, line by line, and the rotation thread's loop.        *)

SECONDS_PER_MINUTE == 60
FALLBACK_MINUTES == 5

\* the minutes the menu passes to start_auto_rotation
SampleMinutes == {0, 1}

\* a control port that answers both commands, and none at all
EnvUp ==
    [ cookies |-> {P_cookie}, stillThere |-> TRUE, cookie |-> Some(<<10, 255>>),
      readOk |-> TRUE, listening |-> Some(DEFAULT_CONTROL), sendAuthOk |-> TRUE,
      authResp |-> Some(R_ok), sendSigOk |-> TRUE, sigResp |-> Some(R_ok),
      closeOk |-> TRUE ]
RotEnvs == {EnvUp, NoEnv}

\* self._auto_rotate_thread.is_alive()
IsAlive == thr \notin {"none", "dead"}

\* line 360: self._auto_rotate_interval_min = minutes
StartSetInterval ==
    /\ mpc = "idle"
    /\ \E minutes \in SampleMinutes : interval' = Some(minutes)
    /\ mpc' = "clear"
    /\ UNCHANGED <<stopFlag, thr, ticks, seen, lastOk, wanted>>
    /\ UNCHANGED <<cfgVars, nymVars, fastVars>>

\* line 361: self._auto_rotate_stop.clear()
StartClear ==
    /\ mpc = "clear"
    /\ stopFlag' = FALSE
    /\ mpc' = "check"
    /\ UNCHANGED <<interval, thr, ticks, seen, lastOk, wanted>>
    /\ UNCHANGED <<cfgVars, nymVars, fastVars>>

\* lines 362-363: return if the thread is alive
StartCheck ==
    /\ mpc = "check"
    /\ IF IsAlive
       THEN mpc' = "idle" /\ wanted' = TRUE
       ELSE mpc' = "spawn" /\ wanted' = wanted
    /\ UNCHANGED <<stopFlag, interval, thr, ticks, seen, lastOk>>
    /\ UNCHANGED <<cfgVars, nymVars, fastVars>>

\* lines 364-365: a new thread is made and started
StartSpawn ==
    /\ mpc = "spawn"
    /\ thr' = "while"
    /\ mpc' = "idle"
    /\ wanted' = TRUE
    /\ UNCHANGED <<stopFlag, interval, ticks, seen, lastOk>>
    /\ UNCHANGED <<cfgVars, nymVars, fastVars>>

Stop_auto_rotation ==
    /\ mpc = "idle"
    /\ stopFlag' = TRUE
    /\ wanted' = FALSE
    /\ UNCHANGED <<interval, mpc, thr, ticks, seen, lastOk>>
    /\ UNCHANGED <<cfgVars, nymVars, fastVars>>

\* line 371: while not self._auto_rotate_stop.is_set()
LoopWhile ==
    /\ thr = "while"
    /\ seen' = stopFlag
    /\ thr' = IF stopFlag THEN "exit" ELSE "newnym"
    /\ UNCHANGED <<stopFlag, interval, mpc, ticks, lastOk, wanted>>
    /\ UNCHANGED <<cfgVars, nymVars, fastVars>>

\* range(interval * 60) with interval = self._auto_rotate_interval_min or 5
SleepSteps ==
    LET minutes == IF interval = None \/ interval[1] = 0
                   THEN FALLBACK_MINUTES ELSE interval[1]
    IN  IF minutes < 0 THEN 0 ELSE minutes * SECONDS_PER_MINUTE

\* (a variant of LoopNewnym that leaves the loop when the attempt failed)
LoopNewnym_StopOnFailure ==
    /\ thr = "newnym"
    /\ \E e \in RotEnvs :
           /\ lastOk' = Some(SendNewnym(torrc, e).ret)
           /\ thr' = IF SendNewnym(torrc, e).ret THEN "for" ELSE "exit"
    /\ ticks' = SleepSteps
    /\ UNCHANGED <<stopFlag, interval, mpc, seen, wanted>>
    /\ UNCHANGED <<cfgVars, nymVars, fastVars>>

\* lines 372-377: one attempt, logged either way, then the sleep loop begins
LoopNewnym ==
    /\ thr = "newnym"
    /\ \E e \in RotEnvs : lastOk' = Some(SendNewnym(torrc, e).ret)
    /\ ticks' = SleepSteps
    /\ thr' = "for"
    /\ UNCHANGED <<stopFlag, interval, mpc, seen, wanted>>
    /\ UNCHANGED <<cfgVars, nymVars, fastVars>>

\* lines 377-379: the next iteration of the for loop, and its check of the flag
LoopFor ==
    /\ thr = "for"
    /\ IF ticks = 0
       THEN thr' = "while" /\ seen' = seen
       ELSE seen' = stopFlag /\ thr' = IF stopFlag THEN "while" ELSE "sleep"
    /\ UNCHANGED <<stopFlag, interval, mpc, ticks, lastOk, wanted>>
    /\ UNCHANGED <<cfgVars, nymVars, fastVars>>

\* line 380: time.sleep(1)
LoopSleep ==
    /\ thr = "sleep"
    /\ ticks' = ticks - 1
    /\ thr' = "for"
    /\ UNCHANGED <<stopFlag, interval, mpc, seen, lastOk, wanted>>
    /\ UNCHANGED <<cfgVars, nymVars, fastVars>>

\* the loop function returns and the thread ends
LoopExit ==
    /\ thr = "exit"
    /\ thr' = "dead"
    /\ UNCHANGED <<stopFlag, interval, mpc, ticks, seen, lastOk, wanted>>
    /\ UNCHANGED <<cfgVars, nymVars, fastVars>>

StartStep == StartClear \/ StartCheck \/ StartSpawn
LoopStep == LoopWhile \/ LoopNewnym \/ LoopFor \/ LoopSleep \/ LoopExit

InitRot ==
    /\ torrc = NoFile
    /\ root = TRUE
    /\ CfgIdle /\ NymIdle /\ RotIdle /\ FastIdle

NextRot ==
    \/ StartSetInterval
    \/ StartClear
    \/ StartCheck
    \/ StartSpawn
    \/ Stop_auto_rotation
    \/ LoopWhile
    \/ LoopNewnym
    \/ LoopFor
    \/ LoopSleep
    \/ LoopExit

\* a started call of start_auto_rotation runs on, and so does a started thread:
\* every step of either returns (time.sleep(1) ends, socket operations time out)
SpecRot ==
    /\ InitRot /\ [][NextRot]_vars
    /\ WF_vars(StartStep)
    /\ WF_vars(LoopStep)

----------------------------------------------------------------------------
(* fastest_country.  Each of its write_torrc calls is taken whole here: w    *)
(* says how the call's file operations turn out.                            *)

MaxPool == 2

SampleLatencies == {10, 20}

\* what get_tor_ip returns as latency: None when the probe raised
ProbeResults == {None} \cup { Some(l) : l \in SampleLatencies }

SamplePoolCodes == { C_us, C_de, <<"U","S">> }
SamplePools == SeqsUpTo(SamplePoolCodes, MaxPool) \ {<<>>}

DefaultPool == <<C_us, C_de, C_nl, C_gb, C_fr, C_ca, C_se, C_ch, C_fi, C_pl, C_es>>

WriteOutcomes == [readOk : BOOLEAN, copied : BOOLEAN, opened : BOOLEAN, written : BOOLEAN]

\* the file after a whole write_torrc call
WrittenFile(f, a, w) ==
    IF ~w.opened THEN f
    ELSE IF ~w.written THEN File(<<>>)
    ELSE File(FileText(WriteOut(f, w.readOk, a)))

\* the backups after a whole write_torrc call
BackupsAfter(f, w, backups) ==
    IF f.exists /\ w.copied THEN backups \cup {f.text} ELSE backups

\* lines 431-437: the pool, filtered by the allow-list
Fastest_country ==
    /\ fpc = "idle"
    /\ \E sample \in SamplePools :
           LET from == IF sample = <<>> THEN DefaultPool ELSE sample
           IN  pool' = SelectSeq(from, LAMBDA c : c \in VALID_COUNTRIES)
    /\ fpc' = IF pool' = <<>> THEN "done" ELSE "try"
    /\ printed' = (pool' = <<>>)
    /\ idx' = 1
    /\ best' = None
    /\ best_latency' = None
    /\ probes' = <<>>
    /\ wfail' = FALSE
    /\ UNCHANGED <<torrc, root, pc, call, prior, pending, newBackups, svcLog>>
    /\ UNCHANGED <<nymVars, rotVars>>

\* lines 438-448: one candidate is written, the service reloaded, the probe made
FcTry ==
    /\ fpc = "try"
    /\ LET c == pool[idx]
           a == [NoArgs EXCEPT !.exitnodes = Some(<<"{">> \o c \o <<"}">>)]
       IN  /\ \E w \in WriteOutcomes :
                  /\ torrc' = WrittenFile(torrc, a, w)
                  /\ newBackups' = BackupsAfter(torrc, w, newBackups)
                  /\ wfail' = (wfail \/ ~w.opened \/ ~w.written)
           /\ svcLog' = IF root THEN Append(svcLog, "reload") ELSE svcLog
           /\ \E lat \in ProbeResults :
                  /\ probes' = Append(probes, lat)
                  /\ IF lat # None /\ (best_latency = None \/ lat[1] < best_latency[1])
                     THEN best_latency' = lat /\ best' = Some(c)
                     ELSE best_latency' = best_latency /\ best' = best
    /\ idx' = idx + 1
    /\ fpc' = IF idx = Len(pool) THEN "apply" ELSE "try"
    /\ UNCHANGED <<root, pc, call, prior, pending, printed, pool>>
    /\ UNCHANGED <<nymVars, rotVars>>

\* lines 449-453: set_exitnodes([best]) if there is a best, a message if not
FcApply ==
    /\ fpc = "apply"
    /\ IF best # None /\ best[1] # <<>> /\ GoodCodes(<<best[1]>>) # <<>>
       THEN /\ \E w \in WriteOutcomes :
                   /\ torrc' = WrittenFile(torrc,
                                   [NoArgs EXCEPT !.exitnodes =
                                        Some(Braced(GoodCodes(<<best[1]>>)))], w)
                   /\ newBackups' = BackupsAfter(torrc, w, newBackups)
                   /\ wfail' = (wfail \/ ~w.opened \/ ~w.written)
            /\ svcLog' = IF root THEN Append(svcLog, "restart") ELSE svcLog
            /\ printed' = printed
       ELSE /\ printed' = TRUE
            /\ UNCHANGED <<torrc, newBackups, wfail, svcLog>>
    /\ fpc' = "done"
    /\ UNCHANGED <<root, pc, call, prior, pending, pool, idx, best, best_latency, probes>>
    /\ UNCHANGED <<nymVars, rotVars>>

L_FooExit == <<L_Foo, L_Exit>>

InitFast ==
    /\ torrc \in {NoFile, File(FileText(L_FooExit))}
    /\ root = TRUE
    /\ CfgIdle /\ NymIdle /\ RotIdle /\ FastIdle

NextFast ==
    \/ Fastest_country
    \/ FcTry
    \/ FcApply

SpecFast == InitFast /\ [][NextFast]_vars

----------------------------------------------------------------------------
(* Properties of the configuration operations *)

\* the lines of a file, as the program reads them
Lines(f) == IF f.exists THEN splitlines(f.text) ELSE <<>>

\* the operation wrote the file and returned
Completed == pc = "done" /\ call.wrote

\* the keys the specification calls recognized (its data model, and the
\* strict-nodes override of the rewrite contract), in lower case
RecognizedKeys ==
    { lower(K_SocksPort), lower(K_ControlPort), lower(K_ExitNodes),
      lower(K_CookieAuthentication), lower(K_CookieAuthFile), lower(K_StrictNodes),
      lower(K_UseBridges), lower(K_Bridge) }

LinesWithKey(ls, k) == SelectSeq(ls, LAMBDA raw : KeyOf(raw) = k)

\* what follows the key on a line
ValueOfLine(raw) ==
    LET t == strip(raw) IN strip(SubSeq(t, Len(KeyOf(raw)) + 1, Len(t)))

HasKey(ls, k) == LinesWithKey(ls, k) # <<>>
LastValue(ls, k) ==
    LET m == LinesWithKey(ls, k) IN ValueOfLine(m[Len(m)])

RECURSIVE IsSubseq(_, _)
IsSubseq(a, b) ==
    IF a = <<>> THEN TRUE
    ELSE IF b = <<>> THEN FALSE
    ELSE IF Head(a) = Head(b) THEN IsSubseq(Tail(a), Tail(b))
    ELSE IsSubseq(a, Tail(b))

Count(l, ls) == Cardinality({ i \in 1..Len(ls) : ls[i] = l })

\* the argument of write_torrc that overrides a key
OverrideOf(a, k) ==
    IF k = lower(K_SocksPort) THEN a.port
    ELSE IF k = lower(K_ControlPort) THEN a.control_port
    ELSE IF k = lower(K_ExitNodes) THEN a.exitnodes
    ELSE IF k = lower(K_CookieAuthentication) THEN a.cookie_auth
    ELSE IF k = lower(K_CookieAuthFile) THEN a.cookie_file
    ELSE IF k = lower(K_StrictNodes) THEN a.strict_nodes
    ELSE IF k = lower(K_UseBridges) THEN a.use_bridges
    ELSE a.bridges

\* the text an override's value is written as
Rendered(k, v) ==
    IF k \in {lower(K_SocksPort), lower(K_ControlPort)} THEN str(v)
    ELSE IF k \in {lower(K_ExitNodes), lower(K_CookieAuthFile)} THEN strip(v)
    ELSE Flag(v)

\* C1: after a write_torrc that read and wrote the file, the prior file's lines
\* whose key is not a recognized key are all in the written file, with their
\* original text, in their original relative order, and as many times as before.
C1_UnrecognizedLinesKept ==
    (Completed /\ call.readOk) =>
        LET was == Lines(prior)
            u == SelectSeq(was, LAMBDA raw : KeyOf(raw) \notin RecognizedKeys)
            now == Lines(torrc)
        IN  /\ IsSubseq(u, now)
            /\ \A i \in 1..Len(u) : Count(u[i], now) = Count(u[i], was)

\* C2: after a write_torrc that read and wrote the file, every recognized key
\* that the caller did not override and that had a value in the prior file has
\* that value in the written file.
C2_NonOverriddenKeysKept ==
    (Completed /\ call.readOk) =>
        \A k \in RecognizedKeys :
            (OverrideOf(call.a, k) = None /\ HasKey(Lines(prior), k)) =>
                /\ HasKey(Lines(torrc), k)
                /\ LastValue(Lines(torrc), k) = LastValue(Lines(prior), k)

\* C3: after a write_torrc that read and wrote the file, every key the caller
\* overrode (port, control port, exit nodes, cookie flag, cookie file, strict
\* nodes, bridge mode) is on exactly one line of the file, with the value given.
C3_OverriddenKeysOnce ==
    (Completed /\ call.readOk) =>
        \A k \in RecognizedKeys \ {lower(K_Bridge)} :
            OverrideOf(call.a, k) # None =>
                /\ Len(LinesWithKey(Lines(torrc), k)) = 1
                /\ LastValue(Lines(torrc), k) = Rendered(k, OverrideOf(call.a, k)[1])

\* C4: when the process is killed inside a write_torrc that found a file, the
\* file holds the whole previous content or the whole new content.
C4_AtomicWrite ==
    (pc = "killed" /\ prior.exists) => (torrc = prior \/ torrc = File(pending))

\* C5: once write_torrc has opened the file for writing, a backup holding the
\* previous content has been made if the file existed, and none if it did not.
C5_BackupBeforeWrite ==
    (pc = "flush" \/ call.wrote) =>
        IF prior.exists THEN prior.text \in newBackups ELSE newBackups = {}

RECURSIVE ExpectedExitNodes(_)
ExpectedExitNodes(codes) ==
    IF codes = <<>> THEN <<>>
    ELSE (IF lower(Head(codes)) \in VALID_COUNTRIES
          THEN <<"{">> \o lower(Head(codes)) \o <<"}">> ELSE <<>>)
         \o ExpectedExitNodes(Tail(codes))

\* C8: set_exitnodes with at least one allow-listed code writes one ExitNodes
\* line whose value is the allow-listed codes, lower-cased, braced and in input
\* order; with none it leaves the file alone, makes no backup, issues no service
\* action and prints its error.
C8_ExitNodesValue ==
    call.op = "set_exitnodes" =>
        IF \E i \in 1..Len(call.codes) : lower(call.codes[i]) \in VALID_COUNTRIES
        THEN call.wrote =>
                 LinesWithKey(Lines(torrc), lower(K_ExitNodes))
                     = << Line(K_ExitNodes, ExpectedExitNodes(call.codes)) >>
        ELSE /\ pc = "done" /\ printed
             /\ torrc = prior /\ newBackups = {} /\ svcLog = <<>>

C8_Witness ==
    /\ pc = "done" /\ call.op = "set_exitnodes" /\ call.wrote /\ root
    /\ call.codes = << <<"D","E">>, <<"x","x">>, C_us >>
    /\ HasKey(Lines(prior), lower(K_ExitNodes))
    /\ svcLog = <<"restart">>

----------------------------------------------------------------------------
(* Properties of send_newnym *)

\* the handshake got as far as a reply to AUTHENTICATE that carries the marker
AuthSucceeded(f, e) ==
    /\ e.cookies # {} /\ e.stillThere /\ e.cookie # None
    /\ e.listening = Some(read_torrc(f, e.readOk).control)
    /\ e.sendAuthOk
    /\ e.authResp # None /\ contains(e.authResp[1], M_250)

SignalSucceeded(e) ==
    /\ e.sendSigOk /\ e.closeOk
    /\ e.sigResp # None /\ contains(e.sigResp[1], M_250)

\* C6: send_newnym returns failure when no cookie file exists, the cookie
\* cannot be read, the connection or a socket operation raises, or either
\* reply lacks the success marker; it returns success only when both replies
\* carry the marker; and it sends SIGNAL NEWNYM only after an AUTHENTICATE
\* whose reply carried the marker.
C6_FailsClosed ==
    nymRes # None =>
        LET r == nymRes[1]
        IN  /\ r.ret => (AuthSucceeded(torrc, nymEnv) /\ SignalSucceeded(nymEnv))
            /\ (\E i \in 1..Len(r.sent) : r.sent[i] = T_Newnym)
                   => /\ AuthSucceeded(torrc, nymEnv)
                      /\ Len(r.sent) = 2
                      /\ startswith(r.sent[1], T_Authenticate)
                      /\ r.sent[2] = T_Newnym

C6_Witness ==
    /\ nymRes # None
    /\ nymEnv.cookies = {P_cookie2, P_cookie4} /\ nymEnv.stillThere
    /\ nymEnv.cookie # None /\ nymEnv.listening = Some(9151) /\ nymEnv.sendAuthOk
    /\ nymEnv.authResp = Some(R_bad)
    /\ nymEnv.sendSigOk /\ nymEnv.sigResp = Some(R_ok) /\ nymEnv.closeOk
    /\ nymRes[1].ret = FALSE
    /\ nymRes[1].sent =
           << T_Authenticate \o <<"0","a","f","f">> \o <<"\r","\n">> >>

----------------------------------------------------------------------------
(* Properties of the rotation thread *)

\* C7: the rotation thread leaves its loop only at the while test, with the
\* stop flag set; every attempt, failed or not, is followed by the sleep loop
\* and is made only after the flag was read unset; with the flag set the sleep
\* loop is left at its next test; and whenever the flag is set, the thread
\* ends unless the flag is cleared again.
C7_RotationLoop ==
    /\ [][(thr' = "exit" /\ thr # "exit") => (thr = "while" /\ stopFlag)]_vars
    /\ [][(thr' = "dead" /\ thr # "dead") => thr = "exit"]_vars
    /\ [][(thr = "newnym" /\ thr' # "newnym")
             => (thr' = "for" /\ lastOk' # None /\ ticks' = SleepSteps)]_vars
    /\ [][(thr' = "newnym" /\ thr # "newnym")
             => (thr = "while" /\ ~stopFlag /\ ~seen')]_vars
    /\ [][(thr = "for" /\ ticks > 0 /\ stopFlag /\ thr' # "for") => thr' = "while"]_vars
    /\ [](thr = "newnym" => ~seen)
    /\ (stopFlag /\ IsAlive) ~> (~IsAlive \/ ~stopFlag)

C7_Witness ==
    /\ thr = "dead" /\ stopFlag /\ seen
    /\ lastOk = Some(FALSE)
    /\ ticks > 0 /\ ticks < SleepSteps

\* C10: when start_auto_rotation has returned and stop_auto_rotation was not
\* called since, the rotation thread is alive.
C10_StartedLoopRuns ==
    (wanted /\ mpc = "idle") => IsAlive

----------------------------------------------------------------------------
(* Properties of fastest_country *)

\* C9: when fastest_country has tried its candidates and returned, and every
\* write succeeded, the ExitNodes value of the file is that of a candidate
\* whose probe succeeded and whose latency is the least of the successful
\* probes.
C9_BestApplied ==
    (fpc = "done" /\ pool # <<>> /\ ~wfail) =>
        \E i \in 1..Len(probes) :
            /\ probes[i] # None
            /\ \A j \in 1..Len(probes) : probes[j] # None => probes[i][1] <= probes[j][1]
            /\ LinesWithKey(Lines(torrc), lower(K_ExitNodes))
                   = << Line(K_ExitNodes, <<"{">> \o pool[i] \o <<"}">>) >>

====
